---- MODULE Spec2Model ----
(***************************************************************************)
(* A model of src/pattern.rs: the Separator enumeration, the culture       *)
(* settings, the pattern registry (NumberPatterns) with its built-in       *)
(* table, and RegexPattern::is_match.                                      *)
(*                                                                         *)
(* A text (a Rust &str) is a sequence of characters; a character is a      *)
(* one-character string, except U+0663 (ARABIC-INDIC DIGIT THREE) and      *)
(* U+00A0 (NO-BREAK SPACE), which are written by their code point names.   *)
(* Option<T> is a sequence: << >> is None, <<x>> is Some(x).               *)
(* A regular expression is kept in the registry as its pattern text, as    *)
(* the source writes it, and compiled by RegexNew when it is used.         *)
(***************************************************************************)
EXTENDS Integers, Sequences, FiniteSets, TLC

VARIABLES common_pattern, culture_pattern, math_pattern, text, op, arg, ret

vars == <<common_pattern, culture_pattern, math_pattern, text, op, arg, ret>>

registry == <<common_pattern, culture_pattern, math_pattern>>

(***************************************************************************)
(* Bounds of the model.                                                    *)
(***************************************************************************)
\* the longest text enumerated over the whole alphabet
MaxLen == 3
\* the most patterns or groups added to a registry after default()
MaxAdded == 3

None == << >>
Some(x) == <<x>>

(***************************************************************************)
(* Characters and the character classes the patterns use (regex crate,     *)
(* Unicode mode, which is its default).                                    *)
(***************************************************************************)
\* [0-9]
AsciiDigit == {"0", "1", "2", "3", "4", "5", "6", "7", "8", "9"}
\* \d is \p{Nd}: every Unicode decimal digit, not only the ASCII ones; U+0663
\* stands for the decimal digits outside ASCII
UnicodeDigit == AsciiDigit \cup {"U+0663"}
\* \s is \p{White_Space}: the space, the ASCII controls \t \n \r (and \v, \f),
\* and the Unicode spaces, for which U+00A0 stands
WhiteSpace == {" ", "\t", "\n", "\r", "U+00A0"}
\* [\-\+]
SignClass == {"-", "+"}
\* [\\,] : a class of two characters, the backslash and the comma
BackslashCommaClass == {"\\", ","}
\* \. and [\.]
DotClass == {"."}

(***************************************************************************)
(* Regular expressions: syntax trees and the matcher.                      *)
(***************************************************************************)
StartAnchor == [t |-> "start", set |-> {}, parts |-> << >>, min |-> 0, max |-> 0]
EndAnchor == [t |-> "end", set |-> {}, parts |-> << >>, min |-> 0, max |-> 0]
Class(S) == [t |-> "class", set |-> S, parts |-> << >>, min |-> 0, max |-> 0]
Cat(ps) == [t |-> "cat", set |-> {}, parts |-> ps, min |-> 0, max |-> 0]
\* max = -1 : no upper limit
Rep(r, lo, hi) == [t |-> "rep", set |-> {}, parts |-> <<r>>, min |-> lo, max |-> hi]
Opt(r) == Rep(r, 0, 1)
Plus(r) == Rep(r, 1, -1)
Star(r) == Rep(r, 0, -1)

RECURSIVE Ends(_, _, _)
RECURSIVE CatEnds(_, _, _)
RECURSIVE RepEnds(_, _, _, _, _, _)

\* the offsets j such that re matches s from offset i up to offset j
Ends(re, s, i) ==
    CASE re.t = "start" -> IF i = 0 THEN {i} ELSE {}
      [] re.t = "end" -> IF i = Len(s) THEN {i} ELSE {}
      [] re.t = "class" -> IF i < Len(s) /\ s[i + 1] \in re.set THEN {i + 1} ELSE {}
      [] re.t = "cat" -> CatEnds(re.parts, s, {i})
      [] re.t = "rep" -> RepEnds(re.parts[1], re.min, re.max, s, {i}, 0)

\* the offsets reached from some offset of P by matching the parts in turn
CatEnds(parts, s, P) ==
    IF parts = << >> \/ P = {}
    THEN P
    ELSE CatEnds(Tail(parts), s, UNION {Ends(Head(parts), s, i) : i \in P})

\* P: the offsets reached after k repetitions of r
RepEnds(r, lo, hi, s, P, k) ==
    LET here == IF k >= lo THEN P ELSE {}
        more == UNION {Ends(r, s, i) : i \in P}
    IN  IF P = {} \/ (hi # -1 /\ k >= hi) \/ k > Len(s) + lo
        THEN here
        ELSE here \cup RepEnds(r, lo, hi, s, more, k + 1)

\* Regex::is_match of the regex crate: a match starting anywhere in the text
RegexIsMatch(re, s) == \E i \in 0..Len(s) : Ends(re, s, i) # {}

(***************************************************************************)
(* Regex::new: the syntax tree of each pattern text the source compiles.   *)
(***************************************************************************)
Sign == Opt(Class(SignClass))
Digits09 == Plus(Class(AsciiDigit))
\* ([x][0-9]{3})
Group3(sepClass) == Cat(<<Class(sepClass), Rep(Class(AsciiDigit), 3, 3)>>)

RegexNew(src) ==
    CASE src = "^" -> StartAnchor
      [] src = "$" -> EndAnchor
      [] src = "[\\-\\+]?\\d+([0-9]{3})*" ->
            Cat(<<Sign, Plus(Class(UnicodeDigit)),
                  Star(Cat(<<Rep(Class(AsciiDigit), 3, 3)>>))>>)
      [] src = "[\\-\\+]?[0-9]+[\\\\,][0-9]{1,}" ->
            Cat(<<Sign, Digits09, Class(BackslashCommaClass),
                  Rep(Class(AsciiDigit), 1, -1)>>)
      [] src = "[\\-\\+]?[\\\\,][0-9]+" ->
            Cat(<<Sign, Class(BackslashCommaClass), Digits09>>)
      [] src = "[\\-\\+]?[0-9]+([\\s][0-9]{3})+" ->
            Cat(<<Sign, Digits09, Plus(Group3(WhiteSpace))>>)
      [] src = "[\\-\\+]?[0-9]+([\\s][0-9]{3})+[\\\\,][0-9]*" ->
            Cat(<<Sign, Digits09, Plus(Group3(WhiteSpace)),
                  Class(BackslashCommaClass), Star(Class(AsciiDigit))>>)
      [] src = "[\\-\\+]?[0-9]+\\.[0-9]{1,}" ->
            Cat(<<Sign, Digits09, Class(DotClass), Rep(Class(AsciiDigit), 1, -1)>>)
      [] src = "[\\-\\+]?[\\.][0-9]+" ->
            Cat(<<Sign, Class(DotClass), Digits09>>)
      [] src = "[\\-\\+]?[0-9]+([\\\\,][0-9]{3})+" ->
            Cat(<<Sign, Digits09, Plus(Group3(BackslashCommaClass))>>)
      [] src = "[\\-\\+]?[0-9]+([\\\\,][0-9]{3})+\\.[0-9]*" ->
            Cat(<<Sign, Digits09, Plus(Group3(BackslashCommaClass)),
                  Class(DotClass), Star(Class(AsciiDigit))>>)
      [] src = "[\\-\\+]?[0-9]+([\\.][0-9]{3})+" ->
            Cat(<<Sign, Digits09, Plus(Group3(DotClass))>>)
      [] src = "[\\-\\+]?[0-9]+([\\.][0-9]{3})+[\\\\,][0-9]*" ->
            Cat(<<Sign, Digits09, Plus(Group3(DotClass)),
                  Class(BackslashCommaClass), Star(Class(AsciiDigit))>>)

\* struct RegexPattern { prefix, content, suffix }
RegexPattern(prefix, content, suffix) ==
    [prefix |-> prefix, content |-> content, suffix |-> suffix]

\* Faulty variants of is_match, against which the claims are tested: the
\* suffix left out, the prefix left out, and the body alone.
is_match_without_suffix(self, s) ==
    RegexIsMatch(Cat(<<RegexNew(self.prefix), RegexNew(self.content)>>), s)
is_match_without_prefix(self, s) ==
    RegexIsMatch(Cat(<<RegexNew(self.content), RegexNew(self.suffix)>>), s)
is_match_content_only(self, s) ==
    RegexIsMatch(RegexNew(self.content), s)

\* RegexPattern::is_match: the three pattern texts are concatenated, compiled as
\* one expression and searched for in the text. None of the pattern texts holds
\* an alternation, so the compiled concatenation is the concatenation of the
\* three compiled parts.
is_match(self, s) ==
    LET full_regex == Cat(<<RegexNew(self.prefix), RegexNew(self.content),
                            RegexNew(self.suffix)>>)
    IN  RegexIsMatch(full_regex, s)

(***************************************************************************)
(* Separator and NumberCultureSettings.                                    *)
(***************************************************************************)
Separator == {"SPACE", "DOT", "COMMA"}
Culture == {"English", "French", "Italian"}

\* impl From<Separator> for &str
SeparatorToStr(e) ==
    CASE e = "COMMA" -> <<",">>
      [] e = "DOT" -> <<".">>
      [] e = "SPACE" -> <<" ">>

Ok(x) == <<"Ok", x>>
Err(x) == <<"Err", x>>

\* A faulty variant of try_from: the dot and the comma exchanged.
SeparatorTryFromSwapped(value) ==
    CASE value = <<",">> -> Ok("DOT")
      [] value = <<".">> -> Ok("COMMA")
      [] value = <<" ">> -> Ok("SPACE")
      [] OTHER -> Err("SeparatorNotFound")

\* impl TryFrom<&str> for Separator
SeparatorTryFrom(value) ==
    CASE value = <<",">> -> Ok("COMMA")
      [] value = <<".">> -> Ok("DOT")
      [] value = <<" ">> -> Ok("SPACE")
      [] OTHER -> Err("SeparatorNotFound")

\* Result::unwrap: the value of Ok, a panic on Err
Unwrap(r) == IF r[1] = "Ok" THEN r[2] ELSE "panic"

\* NumberCultureSettings::new
NumberCultureSettingsNew(thousand_separator, decimal_separator) ==
    [thousand_separator |-> thousand_separator,
     decimal_separator |-> decimal_separator]

english_culture ==
    NumberCultureSettingsNew(SeparatorToStr("COMMA"), SeparatorToStr("DOT"))
french_culture ==
    NumberCultureSettingsNew(SeparatorToStr("SPACE"), SeparatorToStr("COMMA"))
italian_culture ==
    NumberCultureSettingsNew(SeparatorToStr("DOT"), SeparatorToStr("COMMA"))

\* impl From<Culture> for NumberCultureSettings
SettingsFromCulture(culture) ==
    CASE culture = "English" -> english_culture
      [] culture = "French" -> french_culture
      [] culture = "Italian" -> italian_culture

to_thousand_separator(self) == Unwrap(SeparatorTryFrom(self.thousand_separator))
to_decimal_separator(self) == Unwrap(SeparatorTryFrom(self.decimal_separator))

(***************************************************************************)
(* The built-in pattern table of NumberPatterns::default().                *)
(***************************************************************************)
ParsingPattern(name, number_type, culture_settings, content) ==
    [name |-> name, number_type |-> number_type,
     culture_settings |-> culture_settings, additional_pattern |-> None,
     regex |-> RegexPattern("^", content, "$")]

Common_Simple_Whole ==
    ParsingPattern("Common_Simple_Whole", "WHOLE", None,
                   "[\\-\\+]?\\d+([0-9]{3})*")

FR_Decimal_Simple ==
    ParsingPattern("FR_Decimal_Simple", "DECIMAL", Some(french_culture),
                   "[\\-\\+]?[0-9]+[\\\\,][0-9]{1,}")
FR_Decimal_Without_Whole_Part ==
    ParsingPattern("FR_Decimal_Without_Whole_Part", "DECIMAL", Some(french_culture),
                   "[\\-\\+]?[\\\\,][0-9]+")
FR_Thousand_Separator ==
    ParsingPattern("FR_Thousand_Separator", "WHOLE", Some(french_culture),
                   "[\\-\\+]?[0-9]+([\\s][0-9]{3})+")
FR_Thousand_Separator_Decimal ==
    ParsingPattern("FR_Thousand_Separator_Decimal", "DECIMAL", Some(french_culture),
                   "[\\-\\+]?[0-9]+([\\s][0-9]{3})+[\\\\,][0-9]*")

\* A faulty variant of EN_Decimal_Simple: the body of the French pattern.
EN_Decimal_Simple_Comma ==
    ParsingPattern("EN_Decimal_Simple", "DECIMAL", Some(english_culture),
                   "[\\-\\+]?[0-9]+[\\\\,][0-9]{1,}")
EN_Decimal_Simple ==
    ParsingPattern("EN_Decimal_Simple", "DECIMAL", Some(english_culture),
                   "[\\-\\+]?[0-9]+\\.[0-9]{1,}")
EN_Decimal_Without_Whole_Part ==
    ParsingPattern("EN_Decimal_Without_Whole_Part", "DECIMAL", Some(english_culture),
                   "[\\-\\+]?[\\.][0-9]+")
EN_Thousand_Separator ==
    ParsingPattern("EN_Thousand_Separator", "WHOLE", Some(english_culture),
                   "[\\-\\+]?[0-9]+([\\\\,][0-9]{3})+")
EN_Thousand_Separator_Decimal ==
    ParsingPattern("EN_Thousand_Separator_Decimal", "DECIMAL", Some(english_culture),
                   "[\\-\\+]?[0-9]+([\\\\,][0-9]{3})+\\.[0-9]*")

\* A faulty variant of IT_Decimal_Simple: the dot as the decimal separator
\* (the body of the English pattern).
IT_Decimal_Simple_Dot ==
    ParsingPattern("IT_Decimal_Simple", "DECIMAL", Some(italian_culture),
                   "[\\-\\+]?[0-9]+\\.[0-9]{1,}")
IT_Decimal_Simple ==
    ParsingPattern("IT_Decimal_Simple", "DECIMAL", Some(italian_culture),
                   "[\\-\\+]?[0-9]+[\\\\,][0-9]{1,}")
IT_Decimal_Without_Whole_Part ==
    ParsingPattern("IT_Decimal_Without_Whole_Part", "DECIMAL", Some(italian_culture),
                   "[\\-\\+]?[\\\\,][0-9]+")
IT_Thousand_Separator ==
    ParsingPattern("IT_Thousand_Separator", "WHOLE", Some(italian_culture),
                   "[\\-\\+]?[0-9]+([\\.][0-9]{3})+")
IT_Thousand_Separator_Decimal ==
    ParsingPattern("IT_Thousand_Separator_Decimal", "DECIMAL", Some(italian_culture),
                   "[\\-\\+]?[0-9]+([\\.][0-9]{3})+[\\\\,][0-9]*")

\* struct CulturePattern { name, value, patterns }
CulturePattern(name, value, patterns) ==
    [name |-> name, value |-> value, patterns |-> patterns]

FrenchGroup ==
    CulturePattern("fr", <<"French">>,
        <<FR_Decimal_Simple, FR_Decimal_Without_Whole_Part,
          FR_Thousand_Separator, FR_Thousand_Separator_Decimal>>)
\* A faulty variant of the English group: the whole-number pattern first.
EnglishGroupReordered ==
    CulturePattern("en", <<"English">>,
        <<EN_Thousand_Separator, EN_Decimal_Simple,
          EN_Decimal_Without_Whole_Part, EN_Thousand_Separator_Decimal>>)
EnglishGroup ==
    CulturePattern("en", <<"English">>,
        <<EN_Decimal_Simple, EN_Decimal_Without_Whole_Part,
          EN_Thousand_Separator, EN_Thousand_Separator_Decimal>>)
ItalianGroup ==
    CulturePattern("it", <<"Italian">>,
        <<IT_Decimal_Simple, IT_Decimal_Without_Whole_Part,
          IT_Thousand_Separator, IT_Thousand_Separator_Decimal>>)

\* impl Default for NumberPatterns
Default ==
    [common_pattern |-> <<Common_Simple_Whole>>,
     culture_pattern |-> <<FrenchGroup, EnglishGroup, ItalianGroup>>,
     math_pattern |-> << >>]

(***************************************************************************)
(* NumberPatterns: the registry's operations.                              *)
(***************************************************************************)
Range(f) == {f[i] : i \in DOMAIN f}

\* Iterator::find: the first element of the sequence that satisfies the test
RECURSIVE Find(_, _)
Find(seq, culture) ==
    IF seq = << >>
    THEN None
    ELSE IF \E k \in DOMAIN Head(seq).value : Head(seq).value[k] = culture
         THEN Some(Head(seq))
         ELSE Find(Tail(seq), culture)

get_all_culture_pattern(cp) == cp
get_culture_pattern(cp, culture) == Find(get_all_culture_pattern(cp), culture)
get_common_pattern(cm) == cm
get_math_pattern(mp) == mp
get_patterns(group) == group.patterns
get_name(group) == group.name
get_cultures(group) == group.value
get_regex(pattern) == pattern.regex
get_number_type(pattern) == pattern.number_type

\* A faulty variant of push: the element put first.
PushFront(vec, x) == <<x>> \o vec

\* Vec::push
Push(vec, x) == Append(vec, x)

(***************************************************************************)
(* Inputs.                                                                 *)
(***************************************************************************)
\* One or two characters of every class the patterns tell apart: an ASCII
\* digit, a decimal digit outside ASCII, the signs, the three separators, a
\* white space other than the space, the backslash, a letter.
Alphabet == {"0", "U+0663", "-", "+", ",", ".", " ", "\t", "\\", "a"}

\* every text of exactly n characters of the alphabet
RECURSIVE TextsOfLen(_)
TextsOfLen(n) ==
    IF n = 0
    THEN {<< >>}
    ELSE {Append(s, c) : s \in TextsOfLen(n - 1), c \in Alphabet}

ShortTexts == UNION {TextsOfLen(n) : n \in 0..MaxLen}

\* the texts the specification's examples and the source's comments name
ExampleTexts ==
    { <<"1", ".", "2", "3", "4">>,
      <<"1", ",", "0", "0", "0", ".", "5", "0">>,
      <<"1", ",", "0", "0", "0">>,
      <<".", "2", "5">>,
      <<"1", " ", "0", "0", "0", ",", "5", "0">>,
      <<"1", ".", "0", "0", "0", ".", "0", "0", "0", ",", "2", "3">>,
      <<"1", "2", ",", ",", "3", "4">>,
      <<"a", "b", "c">>,
      << >>,
      <<"1", " ", "0", "0", "0", " ", "0", "0", "0">>,
      <<"1", " ", "0", "0">>,
      <<"1", "0", "0", "0">>,
      <<"-", "4", "2">>,
      <<"+", "7">>,
      <<"1", "0", ",", "2">>,
      <<"1", ",", "0", "0", "0", ".">> }

\* n zeros
RECURSIVE Zeros(_)
Zeros(n) == IF n = 0 THEN << >> ELSE <<"0">> \o Zeros(n - 1)

SeparatorLike == {",", ".", " ", "\t", "\\"}

\* grouped shapes: [sign] 1 (sep ddd){1,2} [sep' d*], with groups of two to
\* four digits and every separator-like character in either place
Tails == {<< >>} \cup {<<d>> \o Zeros(k) : d \in SeparatorLike, k \in 0..2}

GroupedTexts ==
    UNION { { sign \o <<"1">> \o <<sep>> \o Zeros(n) \o more \o tail :
                sign \in {<< >>, <<"-">>},
                n \in 2..4,
                more \in {<< >>, <<sep>> \o Zeros(3)},
                tail \in Tails } : sep \in SeparatorLike }

Inputs == ShortTexts \cup ExampleTexts \cup GroupedTexts

\* groups and patterns a caller may add to the registry
CustomGroups ==
    { CulturePattern("fr2", <<"French">>, <<EN_Decimal_Simple>>),
      CulturePattern("en_it", <<"English", "Italian">>, << >>),
      CulturePattern("nobody", << >>, <<Common_Simple_Whole>>) }

CustomPatterns ==
    { ParsingPattern("Custom_Whole", "WHOLE", None, "[\\-\\+]?\\d+([0-9]{3})*"),
      ParsingPattern("Custom_Decimal", "DECIMAL", Some(english_culture),
                     "[\\-\\+]?[\\.][0-9]+") }

(***************************************************************************)
(* The state machine. op, arg and ret are the last call made, its argument *)
(* and the value it returned.                                              *)
(***************************************************************************)
\* NumberPatterns::new() / NumberPatterns::default()
InitRegistry ==
    /\ common_pattern = Default.common_pattern
    /\ culture_pattern = Default.culture_pattern
    /\ math_pattern = Default.math_pattern
    /\ op = "none"
    /\ arg = None
    /\ ret = None

Init ==
    /\ InitRegistry
    /\ text = << >>

InitMatch ==
    /\ InitRegistry
    /\ text \in Inputs

Added == (Len(common_pattern) - Len(Default.common_pattern))
         + (Len(culture_pattern) - Len(Default.culture_pattern))
         + (Len(math_pattern) - Len(Default.math_pattern))

AddCulturePattern ==
    /\ Added < MaxAdded
    /\ \E pattern \in CustomGroups :
          culture_pattern' = Push(culture_pattern, pattern)
    /\ UNCHANGED <<common_pattern, math_pattern, text, op, arg, ret>>

AddCommonPattern ==
    /\ Added < MaxAdded
    /\ \E pattern \in CustomPatterns :
          common_pattern' = Push(common_pattern, pattern)
    /\ UNCHANGED <<culture_pattern, math_pattern, text, op, arg, ret>>

AddMathPattern ==
    /\ Added < MaxAdded
    /\ \E pattern \in CustomPatterns :
          math_pattern' = Push(math_pattern, pattern)
    /\ UNCHANGED <<common_pattern, culture_pattern, text, op, arg, ret>>

GetCulturePattern ==
    /\ \E culture \in Culture :
          /\ op' = "get_culture_pattern"
          /\ arg' = culture
          /\ ret' = get_culture_pattern(culture_pattern, culture)
    /\ UNCHANGED <<registry, text>>

\* is_match of one of the patterns a caller with a culture hint evaluates: the
\* common patterns and the patterns of the hinted culture's group
IsMatch ==
    /\ \E culture \in Culture :
          LET group == get_culture_pattern(culture_pattern, culture)
          IN  /\ group # None
              /\ \E pattern \in Range(get_common_pattern(common_pattern))
                                  \cup Range(get_patterns(group[1])) :
                    /\ op' = "is_match"
                    /\ arg' = pattern
                    /\ ret' = is_match(get_regex(pattern), text)
    /\ UNCHANGED <<registry, text>>

SeparatorInto ==
    /\ \E e \in Separator :
          /\ op' = "from"
          /\ arg' = e
          /\ ret' = SeparatorToStr(e)
    /\ UNCHANGED <<registry, text>>

TryFrom ==
    /\ op' = "try_from"
    /\ arg' = text
    /\ ret' = SeparatorTryFrom(text)
    /\ UNCHANGED <<registry, text>>

ToSeparators ==
    /\ \E culture \in Culture :
          LET settings == SettingsFromCulture(culture)
          IN  /\ op' = "to_separators"
              /\ arg' = culture
              /\ ret' = <<to_thousand_separator(settings),
                          to_decimal_separator(settings)>>
    /\ UNCHANGED <<registry, text>>

Next ==
    \/ AddCulturePattern
    \/ AddCommonPattern
    \/ AddMathPattern
    \/ GetCulturePattern

\* One call on one input: the functions below are pure (they read their
\* arguments and the registry, and change nothing), so what a call returns does
\* not depend on the calls made before it.
NextMatch ==
    \/ (op = "none" /\ GetCulturePattern)
    \/ (op = "none" /\ IsMatch)
    \/ (op = "none" /\ SeparatorInto)
    \/ (op = "none" /\ TryFrom)
    \/ (op = "none" /\ ToSeparators)

\* the registry: default(), then any additions and look-ups
Spec == Init /\ [][Next]_vars

\* the pure functions on the default registry, applied to every input
SpecMatch == InitMatch /\ [][NextMatch]_vars

(***************************************************************************)
(* What the claims are stated with.                                        *)
(***************************************************************************)
\* the patterns evaluated under a culture hint, in order: the common patterns,
\* then the patterns of the hinted culture's group
Candidates(culture) ==
    LET group == get_culture_pattern(culture_pattern, culture)
    IN  get_common_pattern(common_pattern)
        \o (IF group = None THEN << >> ELSE get_patterns(group[1]))

MatchIndexes(list, s) == {i \in DOMAIN list : is_match(get_regex(list[i]), s)}

\* the place of the first pattern of the list that accepts s, 0 when none does
FirstMatchIndex(list, s) ==
    IF MatchIndexes(list, s) = {}
    THEN 0
    ELSE CHOOSE i \in MatchIndexes(list, s) : \A j \in MatchIndexes(list, s) : i <= j

\* the first pattern of the hinted culture's list that accepts s has this name
\* and number type, and no pattern before it accepts s
FirstMatchIs(culture, s, name, number_type) ==
    LET list == Candidates(culture)
        k == FirstMatchIndex(list, s)
    IN  /\ k # 0
        /\ list[k].name = name
        /\ get_number_type(list[k]) = number_type
        /\ \A j \in 1..(k - 1) : ~is_match(get_regex(list[j]), s)

NoMatch(culture, s) == FirstMatchIndex(Candidates(culture), s) = 0

\* "digit" in the claims: a decimal digit, ASCII or not (what \d accepts)
Digit == UnicodeDigit

Claims(group, culture) == \E k \in DOMAIN get_cultures(group) : get_cultures(group)[k] = culture

BuiltInGroup(culture) ==
    CASE culture = "French" -> FrenchGroup
      [] culture = "English" -> EnglishGroup
      [] culture = "Italian" -> ItalianGroup

(***************************************************************************)
(* C1. After default() and any additions, get_culture_pattern(c) returns   *)
(* the earliest registered group whose culture list holds c, None when no  *)
(* group holds c; and a value it returned stays the value it returns after *)
(* any later addition: for a built-in culture, always the built-in group.  *)
(***************************************************************************)
\* C1: a returned group is the earliest group claiming the culture, which is
\* the built-in one, whatever was added before or after the look-up
C1_EarliestGroupWins ==
    op = "get_culture_pattern" =>
        /\ (\A i \in DOMAIN culture_pattern : ~Claims(culture_pattern[i], arg))
              => ret = None
        /\ (\E i \in DOMAIN culture_pattern : Claims(culture_pattern[i], arg))
              => \E i \in DOMAIN culture_pattern :
                    /\ ret = Some(culture_pattern[i])
                    /\ Claims(culture_pattern[i], arg)
                    /\ \A j \in 1..(i - 1) : ~Claims(culture_pattern[j], arg)
        /\ ret = Some(BuiltInGroup(arg))
        /\ \A i \in 1..Len(Default.culture_pattern) :
              culture_pattern[i] = Default.culture_pattern[i]

\* a look-up of French answered "fr" although a later group claims French too
C1_Witness ==
    /\ op = "get_culture_pattern"
    /\ arg = "French"
    /\ ret # None
    /\ get_name(ret[1]) = "fr"
    /\ \E i \in DOMAIN culture_pattern :
          i > Len(Default.culture_pattern) /\ Claims(culture_pattern[i], "French")

(***************************************************************************)
(* C2. On the default registry get_culture_pattern returns, for English,   *)
(* French and Italian, the group named "en", "fr", "it", with exactly four *)
(* patterns in the order decimal with whole part (DECIMAL), decimal        *)
(* without whole part (DECIMAL), thousand-grouped whole (WHOLE),           *)
(* thousand-grouped decimal (DECIMAL); the registry holds one common       *)
(* pattern (WHOLE, no culture settings), three groups, no math pattern.    *)
(***************************************************************************)
ExpectedName(culture) ==
    CASE culture = "English" -> "en"
      [] culture = "French" -> "fr"
      [] culture = "Italian" -> "it"

ExpectedPatternNames(culture) ==
    CASE culture = "English" ->
            <<"EN_Decimal_Simple", "EN_Decimal_Without_Whole_Part",
              "EN_Thousand_Separator", "EN_Thousand_Separator_Decimal">>
      [] culture = "French" ->
            <<"FR_Decimal_Simple", "FR_Decimal_Without_Whole_Part",
              "FR_Thousand_Separator", "FR_Thousand_Separator_Decimal">>
      [] culture = "Italian" ->
            <<"IT_Decimal_Simple", "IT_Decimal_Without_Whole_Part",
              "IT_Thousand_Separator", "IT_Thousand_Separator_Decimal">>

\* C2: the shape of the default registry and of the three groups it returns
C2_DefaultRegistry ==
    /\ Len(get_common_pattern(common_pattern)) = 1
    /\ get_number_type(common_pattern[1]) = "WHOLE"
    /\ common_pattern[1].culture_settings = None
    /\ Len(get_all_culture_pattern(culture_pattern)) = 3
    /\ get_math_pattern(math_pattern) = << >>
    /\ op = "get_culture_pattern" =>
          /\ ret # None
          /\ get_name(ret[1]) = ExpectedName(arg)
          /\ Len(get_patterns(ret[1])) = 4
          /\ [i \in 1..4 |-> get_patterns(ret[1])[i].name] = ExpectedPatternNames(arg)
          /\ [i \in 1..4 |-> get_number_type(get_patterns(ret[1])[i])]
                = <<"DECIMAL", "DECIMAL", "WHOLE", "DECIMAL">>

C2_Witness ==
    /\ op = "get_culture_pattern"
    /\ arg = "Italian"
    /\ ret # None
    /\ get_name(ret[1]) = "it"
    /\ Len(get_patterns(ret[1])) > 0

(***************************************************************************)
(* C3. The text "1.234" under a culture hint.                              *)
(***************************************************************************)
Text_1_234 == <<"1", ".", "2", "3", "4">>

\* C3 as the specification states it: for the text "1.234", the first
\* accepting pattern among the common patterns followed by the Italian group's
\* is IT_Thousand_Separator (WHOLE), and no pattern among the common patterns
\* followed by the English group's accepts it.
C3_AsStated ==
    text = Text_1_234 =>
        /\ FirstMatchIs("Italian", text, "IT_Thousand_Separator", "WHOLE")
        /\ NoMatch("English", text)

\* C3, amended: for the text "1.234", the first accepting pattern under an
\* Italian hint is IT_Thousand_Separator (WHOLE), and the first accepting
\* pattern under an English hint is EN_Decimal_Simple (DECIMAL): each hint
\* selects one interpretation, and the English one is the decimal 1.234.
C3_HintSelectsInterpretation ==
    /\ text = Text_1_234 =>
          /\ FirstMatchIs("Italian", text, "IT_Thousand_Separator", "WHOLE")
          /\ FirstMatchIs("English", text, "EN_Decimal_Simple", "DECIMAL")
    /\ (text = Text_1_234 /\ op = "is_match") =>
          (ret <=> arg.name \in {"IT_Thousand_Separator", "EN_Decimal_Simple"})

C3_Witness ==
    /\ text = Text_1_234
    /\ op = "is_match"
    /\ arg.name = "EN_Decimal_Simple"
    /\ ret = TRUE

(***************************************************************************)
(* C4. First-match selection under a culture hint picks the pattern the    *)
(* specification names: English "1,000.50" EN_Thousand_Separator_Decimal   *)
(* (DECIMAL), "1,000" EN_Thousand_Separator (WHOLE), ".25"                 *)
(* EN_Decimal_Without_Whole_Part (DECIMAL); French "1 000,50"              *)
(* FR_Thousand_Separator_Decimal (DECIMAL); Italian "1.000.000,23"         *)
(* IT_Thousand_Separator_Decimal (DECIMAL); no earlier pattern of the list *)
(* accepts the text.                                                       *)
(***************************************************************************)
Text_1c000d50 == <<"1", ",", "0", "0", "0", ".", "5", "0">>
Text_1c000 == <<"1", ",", "0", "0", "0">>
Text_d25 == <<".", "2", "5">>
Text_1s000c50 == <<"1", " ", "0", "0", "0", ",", "5", "0">>
Text_1d000d000c23 == <<"1", ".", "0", "0", "0", ".", "0", "0", "0", ",", "2", "3">>

\* C4: the first accepting pattern for each example text under its hint
C4_FirstMatchExamples ==
    /\ text = Text_1c000d50 =>
          FirstMatchIs("English", text, "EN_Thousand_Separator_Decimal", "DECIMAL")
    /\ text = Text_1c000 =>
          FirstMatchIs("English", text, "EN_Thousand_Separator", "WHOLE")
    /\ text = Text_d25 =>
          FirstMatchIs("English", text, "EN_Decimal_Without_Whole_Part", "DECIMAL")
    /\ text = Text_1s000c50 =>
          FirstMatchIs("French", text, "FR_Thousand_Separator_Decimal", "DECIMAL")
    /\ text = Text_1d000d000c23 =>
          FirstMatchIs("Italian", text, "IT_Thousand_Separator_Decimal", "DECIMAL")

C4_Witness ==
    /\ text = Text_1d000d000c23
    /\ op = "is_match"
    /\ arg.name = "IT_Thousand_Separator_Decimal"
    /\ ret = TRUE

(***************************************************************************)
(* C5. Malformed input never matches: for "12,,34", "abc" and the empty    *)
(* text, is_match is false for every common pattern and every pattern of   *)
(* every built-in culture's group.                                         *)
(***************************************************************************)
Text_12cc34 == <<"1", "2", ",", ",", "3", "4">>
Text_abc == <<"a", "b", "c">>
MalformedTexts == {Text_12cc34, Text_abc, << >>}

\* C5: no common or culture pattern accepts a malformed text
C5_MalformedNeverMatches ==
    text \in MalformedTexts =>
        /\ \A culture \in Culture : NoMatch(culture, text)
        /\ \A i \in DOMAIN culture_pattern :
              MatchIndexes(get_patterns(culture_pattern[i]), text) = {}
        /\ op = "is_match" => ret = FALSE

C5_Witness ==
    /\ text = Text_12cc34
    /\ op = "is_match"
    /\ arg.name = "EN_Thousand_Separator"
    /\ ret = FALSE

(***************************************************************************)
(* C6. Thousand-grouping patterns require groups of exactly three digits   *)
(* after the first group.                                                  *)
(***************************************************************************)
Text_1s000s000 == <<"1", " ", "0", "0", "0", " ", "0", "0", "0">>
Text_1s00 == <<"1", " ", "0", "0">>

ThousandPatternNames ==
    {"EN_Thousand_Separator", "EN_Thousand_Separator_Decimal",
     "FR_Thousand_Separator", "FR_Thousand_Separator_Decimal",
     "IT_Thousand_Separator", "IT_Thousand_Separator_Decimal"}

\* the characters the pattern's own culture settings declare
ThousandChar(pattern) == pattern.culture_settings[1].thousand_separator[1]
DecimalChar(pattern) == pattern.culture_settings[1].decimal_separator[1]

\* the part of s before its first character d, all of s when it holds none
Before(s, d) ==
    IF \E i \in DOMAIN s : s[i] = d
    THEN SubSeq(s, 1, (CHOOSE i \in DOMAIN s :
                          s[i] = d /\ \A j \in 1..(i - 1) : s[j] # d) - 1)
    ELSE s

\* s holds the separator, and exactly three digits follow each occurrence of it
GroupedByThree(s, separator) ==
    /\ \E i \in DOMAIN s : s[i] = separator
    /\ \A i \in DOMAIN s :
          s[i] = separator =>
              /\ i + 3 <= Len(s)
              /\ \A k \in 1..3 : s[i + k] \in Digit
              /\ (i + 4 <= Len(s) => s[i + 4] \notin Digit)

\* C6 as the specification states it: a text accepted by a culture's
\* Thousand_Separator or Thousand_Separator_Decimal pattern holds, before the
\* decimal separator, at least one thousand separator of that culture, and
\* every digit group that follows a thousand separator has exactly three
\* digits; "1 000 000" is accepted by FR_Thousand_Separator and "1 00" by no
\* French and no common pattern.
C6_AsStated ==
    /\ (op = "is_match" /\ ret = TRUE /\ arg.name \in ThousandPatternNames) =>
          GroupedByThree(Before(text, DecimalChar(arg)), ThousandChar(arg))
    /\ text = Text_1s000s000 =>
          is_match(get_regex(FR_Thousand_Separator), text)
    /\ text = Text_1s00 => NoMatch("French", text)

\* What the code does keep: with "separator" read as any character of the
\* class the pattern itself writes for it (not the culture's declared
\* character), every accepted text has at least one separator and every
\* separator is followed by exactly three digits.
GroupSeparatorClass(pattern) ==
    CASE pattern.culture_settings = Some(english_culture) -> BackslashCommaClass
      [] pattern.culture_settings = Some(french_culture) -> WhiteSpace
      [] pattern.culture_settings = Some(italian_culture) -> DotClass

GroupsOfThreeByPatternClass ==
    (op = "is_match" /\ ret = TRUE /\ arg.name \in ThousandPatternNames) =>
        /\ \E i \in DOMAIN text : text[i] \in GroupSeparatorClass(arg)
        /\ \A i \in DOMAIN text :
              text[i] \in GroupSeparatorClass(arg) =>
                  /\ i + 3 <= Len(text)
                  /\ \A k \in 1..3 : text[i + k] \in AsciiDigit
                  /\ (i + 4 <= Len(text) => text[i + 4] \notin AsciiDigit)

(***************************************************************************)
(* C7. Common_Simple_Whole is anchored to the full input: is_match accepts *)
(* a text if and only if the whole text is an optional single leading '+'  *)
(* or '-' followed by one or more digits and nothing else; "10,2", which   *)
(* the body expression alone matches (test_regex), is rejected.            *)
(* A digit is a decimal digit as the regex crate's \d reads it, ASCII or   *)
(* not: the body is written with \d.                                       *)
(***************************************************************************)
Text_10c2 == <<"1", "0", ",", "2">>

SignedDigits(s) ==
    LET body == IF s # << >> /\ s[1] \in {"+", "-"} THEN Tail(s) ELSE s
    IN  /\ Len(body) >= 1
        /\ \A i \in DOMAIN body : body[i] \in Digit

\* C7: Common_Simple_Whole accepts exactly [sign] digit+, and rejects "10,2"
\* although its body alone matches it
C7_CommonWholeAnchored ==
    /\ (op = "is_match" /\ arg.name = "Common_Simple_Whole") =>
          (ret <=> SignedDigits(text))
    /\ text = Text_10c2 =>
          /\ RegexIsMatch(RegexNew(get_regex(common_pattern[1]).content), text)
          /\ ~is_match(get_regex(common_pattern[1]), text)

C7_Witness ==
    /\ text = Text_10c2
    /\ op = "is_match"
    /\ arg.name = "Common_Simple_Whole"
    /\ ret = FALSE

C7_WitnessAccepted ==
    /\ text = <<"-", "4", "2">>
    /\ op = "is_match"
    /\ arg.name = "Common_Simple_Whole"
    /\ ret = TRUE

(***************************************************************************)
(* C8. The Separator mapping is a bijection between {SPACE, DOT, COMMA}    *)
(* and the texts " ", ".", ",": try_from(from(s)) = Ok(s); for each of the *)
(* three texts x, from(try_from(x)) = x; every other text gives            *)
(* Err(SeparatorNotFound); and to_thousand_separator, to_decimal_separator *)
(* of the English, French and Italian settings return (COMMA, DOT),        *)
(* (SPACE, COMMA), (DOT, COMMA) without panicking.                         *)
(***************************************************************************)
SeparatorTexts == {<<" ">>, <<".">>, <<",">>}

ExpectedSeparators(culture) ==
    CASE culture = "English" -> <<"COMMA", "DOT">>
      [] culture = "French" -> <<"SPACE", "COMMA">>
      [] culture = "Italian" -> <<"DOT", "COMMA">>

\* C8: from and try_from are inverse on the three separators, every other
\* text is SeparatorNotFound, and the built-in settings convert without panic
C8_SeparatorBijection ==
    /\ op = "from" =>
          /\ ret \in SeparatorTexts
          /\ SeparatorTryFrom(ret) = Ok(arg)
          /\ \A e \in Separator : SeparatorToStr(e) = ret => e = arg
    /\ op = "try_from" =>
          /\ arg \in SeparatorTexts =>
                /\ ret[1] = "Ok"
                /\ ret[2] \in Separator
                /\ SeparatorToStr(ret[2]) = arg
          /\ arg \notin SeparatorTexts => ret = Err("SeparatorNotFound")
    /\ op = "to_separators" => ret = ExpectedSeparators(arg)

C8_Witness ==
    /\ op = "try_from"
    /\ arg = <<",">>
    /\ ret = Ok("COMMA")

C8_WitnessNotFound ==
    /\ op = "try_from"
    /\ arg = <<",", ",">>
    /\ ret = Err("SeparatorNotFound")

(***************************************************************************)
(* C9. A match of a DECIMAL pattern implies a fractional part.             *)
(***************************************************************************)
\* C9 as the specification states it: every text a built-in DECIMAL pattern
\* accepts holds the culture's decimal separator followed by at least one
\* digit, and only digits, up to the end of the text; none ends with the
\* decimal separator.
C9_AsStated ==
    (op = "is_match" /\ ret = TRUE /\ arg.culture_settings # None
        /\ get_number_type(arg) = "DECIMAL") =>
        /\ \E i \in DOMAIN text :
              /\ text[i] = DecimalChar(arg)
              /\ i < Len(text)
              /\ \A j \in (i + 1)..Len(text) : text[j] \in Digit
        /\ text[Len(text)] # DecimalChar(arg)

(***************************************************************************)
(* C10. A built-in culture pattern accepts only its culture's alphabet.    *)
(***************************************************************************)
\* C10 as stated: every character of a text accepted by a pattern of a
\* built-in culture's group is a decimal digit, a single leading '+' or '-',
\* or the thousand or decimal separator its culture settings declare.
C10_AsStated ==
    (op = "is_match" /\ ret = TRUE /\ arg.culture_settings # None) =>
        \A i \in DOMAIN text :
            \/ text[i] \in Digit
            \/ (i = 1 /\ text[i] \in {"+", "-"})
            \/ text[i] \in {ThousandChar(arg), DecimalChar(arg)}

(***************************************************************************)
(* C11. Within one culture the built-in patterns are mutually exclusive:   *)
(* for every built-in culture and every text, at most one pattern among    *)
(* the common patterns and the four patterns of the culture's group        *)
(* accepts the text; so the first match under a hint does not depend on    *)
(* the order in which these patterns are evaluated.                        *)
(***************************************************************************)
\* the place of the last pattern of the list that accepts s, 0 when none does
LastMatchIndex(list, s) ==
    IF MatchIndexes(list, s) = {}
    THEN 0
    ELSE CHOOSE i \in MatchIndexes(list, s) : \A j \in MatchIndexes(list, s) : j <= i

====
